---- MODULE Spec2Model ----
(***************************************************************************)
(* PedalBoard.ino: an organ pedalboard read by an Arduino and reported to  *)
(* the host either as USB keyboard key presses or as USB MIDI notes.       *)
(*                                                                         *)
(* The model follows the sketch statement by statement: setup() runs once, *)
(* then loop() is called for ever.  One loop() call is one poll cycle: for *)
(* buttonNum i = 0..12 it reads the pin, calls a handler when the read     *)
(* differs from pedalValues[i], and stores the read.  The MIDI handlers    *)
(* are followed through their four statements (LED on, sendMIDI, flush,    *)
(* LED off).  The physical pins are the environment: they change level at  *)
(* any moment.                                                             *)
(***************************************************************************)
EXTENDS Integers, Sequences, FiniteSets, TLC

VARIABLES
    pc,                 \* position of the single thread of control
    i,                  \* loop(): the for-loop index
    pedalValue,         \* loop(): the local holding this iteration's read
    packet,             \* startNote()/endNote(): the local midiEventPacket_t
    selectValue,        \* setup(): the local holding the selector read
    currentMode,
    pedalValues,
    buttonDownHandler,
    buttonUpHandler,
    greenLED,           \* level last written to the green LED pin
    redLED,             \* level last written to the red LED pin
    pins,               \* environment: electrical level of each pedal input
    selectLevel,        \* environment: electrical level of the selector input
    edges,              \* history: level changes of each pedal since its last read
    prevValues,         \* history: pedalValues as it was when the poll cycle began
    lastRead,           \* history: the value most recently read from each pedal
    events,             \* history: handler calls of the current poll cycle
    calls,              \* history: backend calls of the current poll cycle
    keyBalance,         \* history: per pedal, Keyboard.press calls minus release calls
    keyboardBegun,      \* history: number of Keyboard.begin() calls
    selectReads,        \* history: number of digitalRead(selectPin) calls
    readEdges,          \* history: level changes the latest pedal read had to account for
    keysHeld,           \* history: key codes pressed and not released since
    sounding            \* history: pitches whose latest MIDI message is a note-on

vars == <<pc, i, pedalValue, packet, selectValue, currentMode, pedalValues,
          buttonDownHandler, buttonUpHandler, greenLED, redLED, pins,
          selectLevel, edges, prevValues, lastRead, events, calls,
          keyBalance, keyboardBegun, selectReads, readEdges, keysHeld,
          sounding>>

(***************************************************************************)
(* Program constants                                                       *)
(***************************************************************************)
LOW == 0
HIGH == 1

MIDI_MODE == 1
KEYB_MODE == 2

NUM_PEDALS == 13

midiChannel == 1
midiVelocity == 64

\* pitchToNote.h of the MIDIUSB library
pitchC3 == 48
pitchD3b == 49
pitchD3 == 50
pitchE3b == 51
pitchE3 == 52
pitchF3 == 53
pitchG3b == 54
pitchG3 == 55
pitchA3b == 56
pitchA3 == 57
pitchB3b == 58
pitchB3 == 59

Pedals == 0 .. (NUM_PEDALS - 1)

notePitches ==
    [n \in Pedals |->
        << pitchC3,  pitchD3b, pitchD3, pitchE3b, pitchE3,
           pitchF3,  pitchG3b, pitchG3, pitchA3b, pitchA3,
           pitchB3b, pitchB3,  pitchC3 >>[n + 1]]

\* The key codes are kept by name: the sketch only passes them on.
pedalKeys ==
    [n \in Pedals |->
        << "KEY_LEFT_CTRL", "KEY_LEFT_ALT", "KEY_LEFT_SHIFT", "KEY_TAB",
           "e", "f", "g", "h",
           "KEY_F3", "KEY_F4", "KEY_F5", "KEY_F6", "KEY_F7" >>[n + 1]]

(***************************************************************************)
(* Bounds of the model                                                     *)
(***************************************************************************)
\* The pedals whose input ever changes level: the first NumLowActive of the
\* 13 and the last one (which shares its pitch with the first).  The others
\* stay released; loop() scans them all the same.
NumLowActive == 2
\* At most MaxPending level changes, over all pedals, have happened and not
\* yet been followed by a read of their pedal.
MaxPending == 2

Active == {n \in Pedals : n < NumLowActive \/ n = NUM_PEDALS - 1}

(***************************************************************************)
(* Byte arithmetic                                                         *)
(***************************************************************************)
RECURSIVE BitOr(_, _)
BitOr(a, b) ==
    IF a = 0 THEN b
    ELSE IF b = 0 THEN a
    ELSE (IF (a % 2 = 1) \/ (b % 2 = 1) THEN 1 ELSE 0)
         + 2 * BitOr(a \div 2, b \div 2)

\* midiEventPacket_t {header, byte1, byte2, byte3}
NoteOnPacket(pitch) ==
    [header |-> 9, byte1 |-> BitOr(144, midiChannel), byte2 |-> pitch,
     byte3 |-> midiVelocity]

\* Mutant: the note-off carries the note-on velocity.
NoteOffPacketLoud(pitch) ==
    [header |-> 8, byte1 |-> BitOr(128, midiChannel), byte2 |-> pitch,
     byte3 |-> midiVelocity]

NoteOffPacket(pitch) ==
    [header |-> 8, byte1 |-> BitOr(128, midiChannel), byte2 |-> pitch,
     byte3 |-> 0]

NoPacket == [header |-> 0, byte1 |-> 0, byte2 |-> 0, byte3 |-> 0]

(***************************************************************************)
(* Initial state: the globals as their initialisers leave them             *)
(***************************************************************************)
Init ==
    /\ pc = "boot"
    /\ i = 0
    /\ pedalValue = HIGH
    /\ packet = NoPacket
    /\ selectValue = HIGH
    /\ currentMode = KEYB_MODE
    /\ pedalValues = [n \in Pedals |-> 1]
    /\ buttonDownHandler = "NULL"
    /\ buttonUpHandler = "NULL"
    /\ greenLED = LOW
    /\ redLED = LOW
    /\ pins = [n \in Pedals |-> HIGH]
    /\ selectLevel \in {LOW, HIGH}
    /\ edges = [n \in Pedals |-> 0]
    /\ prevValues = [n \in Pedals |-> 1]
    /\ lastRead = [n \in Pedals |-> 1]
    /\ events = << >>
    /\ calls = << >>
    /\ keyBalance = [n \in Pedals |-> 0]
    /\ keyboardBegun = 0
    /\ selectReads = 0
    /\ readEdges = 0
    /\ keysHeld = {}
    /\ sounding = {}

(***************************************************************************)
(* The backends, as the calls the sketch makes on them                     *)
(***************************************************************************)
Call(op, key, pkt, val) == [op |-> op, key |-> key, pkt |-> pkt, val |-> val]

KeyboardPress(k) == Call("Keyboard.press", k, NoPacket, LOW)
KeyboardRelease(k) == Call("Keyboard.release", k, NoPacket, LOW)
SendMIDI(p) == Call("MidiUSB.sendMIDI", "", p, LOW)
MidiFlushCall == Call("MidiUSB.flush", "", NoPacket, LOW)
WriteRedLED(v) == Call("digitalWrite(redLED)", "", NoPacket, v)

(***************************************************************************)
(* setup()                                                                 *)
(***************************************************************************)
\* Lines 111-121: the mode chosen from the selector read.
SelectMode(v) == IF v # LOW THEN MIDI_MODE ELSE KEYB_MODE

\* Mutant: the down slot gets the MIDI handler whatever the mode.
BindDownAlwaysMidi(mode) == "handleMidiDown"

\* Mutant: the up slot gets the keyboard DOWN handler (a copy-paste slip).
BindUpCopiedDown(mode) ==
    IF mode = KEYB_MODE THEN "handleKeyboardDown" ELSE "handleMidiUp"

\* Mutant: the up slot gets the keyboard handler whatever the mode.
BindUpAlwaysKeyboard(mode) == "handleKeyboardUp"

\* Lines 123-132: the handler pair bound for a mode.
BindDown(mode) ==
    IF mode = KEYB_MODE THEN "handleKeyboardDown" ELSE "handleMidiDown"

BindUp(mode) ==
    IF mode = KEYB_MODE THEN "handleKeyboardUp" ELSE "handleMidiUp"

\* Mutant: Keyboard.begin() is called outside the if, in both modes.
SetupBeginsAlways ==
    /\ pc = "boot"
    /\ selectValue' = selectLevel
    /\ selectReads' = selectReads + 1
    /\ currentMode' = SelectMode(selectLevel)
    /\ greenLED' = (IF selectLevel # LOW THEN HIGH ELSE LOW)
    /\ redLED' = (IF selectLevel # LOW THEN LOW ELSE HIGH)
    /\ buttonDownHandler' = BindDown(currentMode')
    /\ buttonUpHandler' = BindUp(currentMode')
    /\ keyboardBegun' = keyboardBegun + 1
    /\ pc' = "loop"
    /\ UNCHANGED <<i, pedalValue, packet, pedalValues, pins, selectLevel,
                   edges, prevValues, lastRead, events, calls, keyBalance,
                   readEdges, keysHeld, sounding>>

\* setup() from its first statement to its return.  The two LEDs are both
\* HIGH during the 2 s delay and get their final levels with the mode.
Setup ==
    /\ pc = "boot"
    /\ selectValue' = selectLevel
    /\ selectReads' = selectReads + 1
    /\ currentMode' = SelectMode(selectLevel)
    /\ greenLED' = (IF selectLevel # LOW THEN HIGH ELSE LOW)
    /\ redLED' = (IF selectLevel # LOW THEN LOW ELSE HIGH)
    /\ buttonDownHandler' = BindDown(currentMode')
    /\ buttonUpHandler' = BindUp(currentMode')
    /\ keyboardBegun' =
          (IF currentMode' = KEYB_MODE THEN keyboardBegun + 1 ELSE keyboardBegun)
    /\ pc' = "loop"
    /\ UNCHANGED <<i, pedalValue, packet, pedalValues, pins, selectLevel,
                   edges, prevValues, lastRead, events, calls, keyBalance,
                   readEdges, keysHeld, sounding>>

(***************************************************************************)
(* The handlers                                                            *)
(***************************************************************************)
handleKeyboardDown(buttonNum) ==
    /\ calls' = Append(calls, KeyboardPress(pedalKeys[buttonNum]))
    /\ keyBalance' = [keyBalance EXCEPT ![buttonNum] = @ + 1]
    /\ keysHeld' = keysHeld \cup {pedalKeys[buttonNum]}
    /\ pc' = "store"
    /\ UNCHANGED <<packet, redLED>>

\* Mutant: the key of pedal 0 is released whatever the pedal.
handleKeyboardUpFirstKey(buttonNum) ==
    /\ calls' = Append(calls, KeyboardRelease(pedalKeys[0]))
    /\ keyBalance' = [keyBalance EXCEPT ![0] = @ - 1]
    /\ keysHeld' = keysHeld \ {pedalKeys[0]}
    /\ pc' = "store"
    /\ UNCHANGED <<packet, redLED>>

handleKeyboardUp(buttonNum) ==
    /\ calls' = Append(calls, KeyboardRelease(pedalKeys[buttonNum]))
    /\ keyBalance' = [keyBalance EXCEPT ![buttonNum] = @ - 1]
    /\ keysHeld' = keysHeld \ {pedalKeys[buttonNum]}
    /\ pc' = "store"
    /\ UNCHANGED <<packet, redLED>>

\* startNote() up to and including digitalWrite(redLED, HIGH)
startNote(pitch) ==
    /\ packet' = NoteOnPacket(pitch)
    /\ redLED' = HIGH
    /\ calls' = Append(calls, WriteRedLED(HIGH))
    /\ pc' = "send"
    /\ UNCHANGED <<keyBalance, keysHeld>>

\* endNote() up to and including digitalWrite(redLED, HIGH)
endNote(pitch) ==
    /\ packet' = NoteOffPacket(pitch)
    /\ redLED' = HIGH
    /\ calls' = Append(calls, WriteRedLED(HIGH))
    /\ pc' = "send"
    /\ UNCHANGED <<keyBalance, keysHeld>>

handleMidiDown(buttonNum) == startNote(notePitches[buttonNum])

handleMidiUp(buttonNum) == endNote(notePitches[buttonNum])

\* Mutant: loop() returns at a NULL pointer instead of skipping the call.
CallHandlerNullReturns(h, buttonNum) ==
    IF h = "NULL"
    THEN /\ pc' = "delay"
         /\ UNCHANGED <<events, calls, keyBalance, keysHeld, packet, redLED>>
    ELSE /\ events' = Append(events, [handler |-> h, buttonNum |-> buttonNum])
         /\ CASE h = "handleKeyboardDown" -> handleKeyboardDown(buttonNum)
              [] h = "handleKeyboardUp" -> handleKeyboardUp(buttonNum)
              [] h = "handleMidiDown" -> handleMidiDown(buttonNum)
              [] h = "handleMidiUp" -> handleMidiUp(buttonNum)

\* A call through one of the two function pointers (lines 143-150): nothing
\* is called when the pointer is NULL.
CallHandler(h, buttonNum) ==
    IF h = "NULL"
    THEN /\ pc' = "store"
         /\ UNCHANGED <<events, calls, keyBalance, keysHeld, packet, redLED>>
    ELSE /\ events' = Append(events, [handler |-> h, buttonNum |-> buttonNum])
         /\ CASE h = "handleKeyboardDown" -> handleKeyboardDown(buttonNum)
              [] h = "handleKeyboardUp" -> handleKeyboardUp(buttonNum)
              [] h = "handleMidiDown" -> handleMidiDown(buttonNum)
              [] h = "handleMidiUp" -> handleMidiUp(buttonNum)

\* MidiUSB.sendMIDI(noteOn) / MidiUSB.sendMIDI(noteOff)
MidiSend ==
    /\ pc = "send"
    /\ calls' = Append(calls, SendMIDI(packet))
    /\ sounding' = (IF packet.byte1 \div 16 = 9
                    THEN sounding \cup {packet.byte2}
                    ELSE sounding \ {packet.byte2})
    /\ pc' = "flush"
    /\ UNCHANGED <<i, pedalValue, packet, selectValue, currentMode, pedalValues,
                   buttonDownHandler, buttonUpHandler, greenLED, redLED, pins,
                   selectLevel, edges, prevValues, lastRead, events,
                   keyBalance, keyboardBegun, selectReads, readEdges, keysHeld>>

\* Mutant: the flush is left out.
MidiFlushSkipped ==
    /\ pc = "flush"
    /\ pc' = "ledOff"
    /\ UNCHANGED <<i, pedalValue, packet, selectValue, currentMode, pedalValues,
                   buttonDownHandler, buttonUpHandler, greenLED, redLED, pins,
                   selectLevel, edges, prevValues, lastRead, events, calls,
                   keyBalance, keyboardBegun, selectReads, readEdges,
                   keysHeld, sounding>>

\* MidiUSB.flush()
MidiFlush ==
    /\ pc = "flush"
    /\ calls' = Append(calls, MidiFlushCall)
    /\ pc' = "ledOff"
    /\ UNCHANGED <<i, pedalValue, packet, selectValue, currentMode, pedalValues,
                   buttonDownHandler, buttonUpHandler, greenLED, redLED, pins,
                   selectLevel, edges, prevValues, lastRead, events,
                   keyBalance, keyboardBegun, selectReads, readEdges,
                   keysHeld, sounding>>

\* Mutant: the LED is written HIGH again instead of LOW.
MidiLedOffStaysOn ==
    /\ pc = "ledOff"
    /\ redLED' = HIGH
    /\ calls' = Append(calls, WriteRedLED(HIGH))
    /\ pc' = "store"
    /\ UNCHANGED <<i, pedalValue, packet, selectValue, currentMode, pedalValues,
                   buttonDownHandler, buttonUpHandler, greenLED, pins,
                   selectLevel, edges, prevValues, lastRead, events,
                   keyBalance, keyboardBegun, selectReads, readEdges,
                   keysHeld, sounding>>

\* digitalWrite(redLED, LOW), and the return to loop()
MidiLedOff ==
    /\ pc = "ledOff"
    /\ redLED' = LOW
    /\ calls' = Append(calls, WriteRedLED(LOW))
    /\ pc' = "store"
    /\ UNCHANGED <<i, pedalValue, packet, selectValue, currentMode, pedalValues,
                   buttonDownHandler, buttonUpHandler, greenLED, pins,
                   selectLevel, edges, prevValues, lastRead, events,
                   keyBalance, keyboardBegun, selectReads, readEdges,
                   keysHeld, sounding>>

(***************************************************************************)
(* loop()                                                                  *)
(***************************************************************************)
\* Mutant: level-triggered, a handler is called whenever the pedal reads down.
ChangedLevel(cached, read) == read = 0

\* Line 140: the read differs from the cached value.
Changed(cached, read) == cached # read

\* Mutant: a read of 1 taken for a pedal held down.
IsDownInverted(read) == read = 1

\* Line 141: with the pull-up wiring a read of 0 is a pedal held down.
IsDown(read) == read = 0

\* loop() is entered: int i = 0.  The per-cycle history starts afresh.
LoopEntry ==
    /\ pc = "loop"
    /\ i' = 0
    /\ prevValues' = pedalValues
    /\ events' = << >>
    /\ calls' = << >>
    /\ pc' = "read"
    /\ UNCHANGED <<pedalValue, packet, selectValue, currentMode, pedalValues,
                   buttonDownHandler, buttonUpHandler, greenLED, redLED, pins,
                   selectLevel, edges, lastRead, keyBalance, keyboardBegun,
                   selectReads, readEdges, keysHeld, sounding>>

\* Lines 139-152: read pedal i, compare with the cached value, dispatch.
LoopRead ==
    /\ pc = "read"
    /\ pedalValue' = pins[i]
    /\ lastRead' = [lastRead EXCEPT ![i] = pins[i]]
    /\ readEdges' = edges[i]
    /\ edges' = [edges EXCEPT ![i] = 0]
    /\ IF Changed(pedalValues[i], pedalValue')
       THEN IF IsDown(pedalValue')
            THEN CallHandler(buttonDownHandler, i)
            ELSE CallHandler(buttonUpHandler, i)
       ELSE /\ pc' = "store"
            /\ UNCHANGED <<events, calls, keyBalance, keysHeld, packet, redLED>>
    /\ UNCHANGED <<i, selectValue, currentMode, pedalValues, buttonDownHandler,
                   buttonUpHandler, greenLED, pins, selectLevel, prevValues,
                   keyboardBegun, selectReads, sounding>>

\* Mutant: the read is not stored, the cache keeps its old value.
LoopStoreNoCache ==
    /\ pc = "store"
    /\ i' = i + 1
    /\ pc' = (IF i' < NUM_PEDALS THEN "read" ELSE "delay")
    /\ UNCHANGED <<pedalValue, packet, selectValue, currentMode, pedalValues,
                   buttonDownHandler, buttonUpHandler, greenLED, redLED, pins,
                   selectLevel, edges, prevValues, lastRead, events, calls,
                   keyBalance, keyboardBegun, selectReads, readEdges,
                   keysHeld, sounding>>

\* Mutant: the scan starts again at pedal 0 after a pedal that changed.
LoopStoreRescan ==
    /\ pc = "store"
    /\ pedalValues' = [pedalValues EXCEPT ![i] = pedalValue]
    /\ i' = (IF pedalValues[i] # pedalValue THEN 0 ELSE i + 1)
    /\ pc' = (IF i' < NUM_PEDALS THEN "read" ELSE "delay")
    /\ UNCHANGED <<pedalValue, packet, selectValue, currentMode,
                   buttonDownHandler, buttonUpHandler, greenLED, redLED, pins,
                   selectLevel, edges, prevValues, lastRead, events, calls,
                   keyBalance, keyboardBegun, selectReads, readEdges,
                   keysHeld, sounding>>

\* Line 153 and the for-loop's i++ and test.
LoopStore ==
    /\ pc = "store"
    /\ pedalValues' = [pedalValues EXCEPT ![i] = pedalValue]
    /\ i' = i + 1
    /\ pc' = (IF i' < NUM_PEDALS THEN "read" ELSE "delay")
    /\ UNCHANGED <<pedalValue, packet, selectValue, currentMode,
                   buttonDownHandler, buttonUpHandler, greenLED, redLED, pins,
                   selectLevel, edges, prevValues, lastRead, events, calls,
                   keyBalance, keyboardBegun, selectReads, readEdges,
                   keysHeld, sounding>>

\* Mutant: the selector is read and the mode chosen again after every cycle.
LoopDelayReselect ==
    /\ pc = "delay"
    /\ pc' = "loop"
    /\ selectValue' = selectLevel
    /\ selectReads' = selectReads + 1
    /\ currentMode' = SelectMode(selectLevel)
    /\ buttonDownHandler' = BindDown(currentMode')
    /\ buttonUpHandler' = BindUp(currentMode')
    /\ UNCHANGED <<i, pedalValue, packet, pedalValues, greenLED, redLED, pins,
                   selectLevel, edges, prevValues, lastRead, events, calls,
                   keyBalance, keyboardBegun, readEdges, keysHeld, sounding>>

\* delay(10) and the return of loop(); the core calls loop() again.
LoopDelay ==
    /\ pc = "delay"
    /\ pc' = "loop"
    /\ UNCHANGED <<i, pedalValue, packet, selectValue, currentMode, pedalValues,
                   buttonDownHandler, buttonUpHandler, greenLED, redLED, pins,
                   selectLevel, edges, prevValues, lastRead, events, calls,
                   keyBalance, keyboardBegun, selectReads, readEdges,
                   keysHeld, sounding>>

(***************************************************************************)
(* The environment                                                         *)
(***************************************************************************)
\* The level changes of pedals 0 .. k-1 that no read has followed yet.
RECURSIVE Pending(_)
Pending(k) == IF k = 0 THEN 0 ELSE edges[k - 1] + Pending(k - 1)

\* A pedal is pressed or released: its input changes level.
PinChange(n) ==
    /\ n \in Active
    /\ Pending(NUM_PEDALS) < MaxPending
    /\ pins' = [pins EXCEPT ![n] = 1 - @]
    /\ edges' = [edges EXCEPT ![n] = @ + 1]
    /\ UNCHANGED <<pc, i, pedalValue, packet, selectValue, currentMode,
                   pedalValues, buttonDownHandler, buttonUpHandler, greenLED,
                   redLED, selectLevel, prevValues, lastRead, events, calls,
                   keyBalance, keyboardBegun, selectReads, readEdges,
                   keysHeld, sounding>>

\* The select button is pressed or released.
SelectChange ==
    /\ selectLevel' = 1 - selectLevel
    /\ UNCHANGED <<pc, i, pedalValue, packet, selectValue, currentMode,
                   pedalValues, buttonDownHandler, buttonUpHandler, greenLED,
                   redLED, pins, edges, prevValues, lastRead, events, calls,
                   keyBalance, keyboardBegun, selectReads, readEdges,
                   keysHeld, sounding>>

Next ==
    \/ Setup
    \/ LoopEntry
    \/ LoopRead
    \/ MidiSend
    \/ MidiFlush
    \/ MidiLedOff
    \/ LoopStore
    \/ LoopDelay
    \/ \E n \in Pedals : PinChange(n)
    \/ SelectChange

Spec == Init /\ [][Next]_vars

\* The steps of the sketch itself: the processor always takes the next one
\* (every delay() returns, the core calls loop() again after it returns).
ProgramStep ==
    \/ Setup
    \/ LoopEntry
    \/ LoopRead
    \/ MidiSend
    \/ MidiFlush
    \/ MidiLedOff
    \/ LoopStore
    \/ LoopDelay

\* The sketch with the inputs of the first NumLowActive pedals changing.
NextFair ==
    \/ ProgramStep
    \/ \E n \in 0 .. (NumLowActive - 1) : PinChange(n)
    \/ SelectChange

FairSpec == Init /\ [][NextFair]_vars /\ WF_vars(ProgramStep)

(***************************************************************************)
(* loop() taken on its own: entered with the two slots as their            *)
(* initialisers leave them (NULL), as a caller that runs loop() before     *)
(* setup() would; setup() binds the slots between two later cycles.        *)
(***************************************************************************)
\* loop() is called while setup() has not run.
LoopUnbound ==
    /\ pc = "boot"
    /\ pc' = "loop"
    /\ UNCHANGED <<i, pedalValue, packet, selectValue, currentMode, pedalValues,
                   buttonDownHandler, buttonUpHandler, greenLED, redLED, pins,
                   selectLevel, edges, prevValues, lastRead, events, calls,
                   keyBalance, keyboardBegun, selectReads, readEdges,
                   keysHeld, sounding>>

\* setup(), run after loop() has returned with the slots still unbound.
SetupLate ==
    /\ pc = "delay"
    /\ buttonDownHandler = "NULL"
    /\ buttonUpHandler = "NULL"
    /\ selectValue' = selectLevel
    /\ selectReads' = selectReads + 1
    /\ currentMode' = SelectMode(selectLevel)
    /\ greenLED' = (IF selectLevel # LOW THEN HIGH ELSE LOW)
    /\ redLED' = (IF selectLevel # LOW THEN LOW ELSE HIGH)
    /\ buttonDownHandler' = BindDown(currentMode')
    /\ buttonUpHandler' = BindUp(currentMode')
    /\ keyboardBegun' =
          (IF currentMode' = KEYB_MODE THEN keyboardBegun + 1 ELSE keyboardBegun)
    /\ pc' = "loop"
    /\ UNCHANGED <<i, pedalValue, packet, pedalValues, pins, selectLevel,
                   edges, prevValues, lastRead, events, calls, keyBalance,
                   readEdges, keysHeld, sounding>>

\* The steps of Next, with the inputs of the first NumLowActive pedals
\* changing, and the two steps above.
NextUnbound ==
    \/ Setup
    \/ LoopUnbound
    \/ SetupLate
    \/ LoopEntry
    \/ LoopRead
    \/ MidiSend
    \/ MidiFlush
    \/ MidiLedOff
    \/ LoopStore
    \/ LoopDelay
    \/ \E n \in 0 .. (NumLowActive - 1) : PinChange(n)
    \/ SelectChange

SpecUnbound == Init /\ [][NextUnbound]_vars

TypeOK ==
    /\ pc \in {"boot", "loop", "read", "send", "flush", "ledOff", "store", "delay"}
    /\ i \in 0 .. NUM_PEDALS
    /\ pedalValue \in {LOW, HIGH}
    /\ currentMode \in {MIDI_MODE, KEYB_MODE}
    /\ pedalValues \in [Pedals -> {0, 1}]
    /\ pins \in [Pedals -> {LOW, HIGH}]
    /\ edges \in [Pedals -> 0 .. MaxPending]
    /\ readEdges \in 0 .. MaxPending

(***************************************************************************)
(* Vocabulary of the properties                                            *)
(***************************************************************************)
\* The handler calls of the current cycle made for pedal n.
EventsFor(n) == SelectSeq(events, LAMBDA e : e.buttonNum = n)

\* The packets handed to MidiUSB.sendMIDI in the current cycle.
Sends == SelectSeq(calls, LAMBDA c : c.op = "MidiUSB.sendMIDI")

\* Inside startNote()/endNote().
InNote == pc \in {"send", "flush", "ledOff"}

\* Pedal n has been read in the current cycle.
ReadDone(n) == n < i \/ (n = i /\ (InNote \/ pc = "store"))

\* The read of pedal i has been made and its iteration is not over.
AfterRead == InNote \/ pc = "store"

(***************************************************************************)
(* C1: in every poll cycle and for every pedal, a handler is invoked for   *)
(* the pedal if and only if the value read in this cycle differs from the  *)
(* value cached from the previous cycle; it is then exactly one call, to   *)
(* the down-handler if the read is 0 and to the up-handler otherwise.      *)
(***************************************************************************)
C1_EdgeDispatch ==
    pc # "boot" =>
        \A n \in Pedals :
            LET ev == EventsFor(n) IN
            IF ReadDone(n) /\ lastRead[n] # prevValues[n]
            THEN /\ Len(ev) = 1
                 /\ ev[1].handler =
                       (IF lastRead[n] = 0 THEN buttonDownHandler
                                           ELSE buttonUpHandler)
            ELSE ev = << >>

\* A cycle that ended with a down event followed by an up event.
C1_Witness ==
    /\ pc = "delay"
    /\ Len(events) = 2
    /\ events[1].handler = buttonDownHandler
    /\ events[2].handler = buttonUpHandler

(***************************************************************************)
(* C2: in Keyboard mode each Down event of pedal n makes exactly one       *)
(* Keyboard.press(pedalKeys[n]) and each Up event exactly one              *)
(* Keyboard.release(pedalKeys[n]); per pedal the two calls alternate,      *)
(* press first (presses minus releases is always 0 or 1).                  *)
(***************************************************************************)
C2_KeyboardAlternation ==
    (pc # "boot" /\ currentMode = KEYB_MODE) =>
        /\ Len(calls) = Len(events)
        /\ \A k \in 1 .. Len(events) :
              LET n == events[k].buttonNum IN
              k <= Len(calls) =>
                  calls[k] = (IF lastRead[n] = 0
                              THEN KeyboardPress(pedalKeys[n])
                              ELSE KeyboardRelease(pedalKeys[n]))
        /\ \A n \in Pedals : keyBalance[n] \in {0, 1}

\* A keyboard-mode cycle with a release and a press while a third key is held.
C2_Witness ==
    /\ currentMode = KEYB_MODE
    /\ pc = "delay"
    /\ \E j, k \in 1 .. Len(calls) :
          /\ calls[j].op = "Keyboard.press"
          /\ calls[k].op = "Keyboard.release"
    /\ \E n \in Pedals : keyBalance[n] = 1 /\ EventsFor(n) = << >>

(***************************************************************************)
(* C3: in MIDI mode every Down event of pedal n sends exactly one note-on  *)
(* (status nibble 9, channel 1, pitch notePitches[n], velocity 64), every  *)
(* Up event exactly one note-off (status nibble 8, channel 1, pitch        *)
(* notePitches[n], velocity 0), and nothing else is sent.                  *)
(***************************************************************************)
C3_MidiMessages ==
    (pc # "boot" /\ currentMode = MIDI_MODE) =>
        /\ Len(Sends) = Len(events) - (IF pc = "send" THEN 1 ELSE 0)
        /\ \A k \in 1 .. Len(Sends) :
              LET n == events[k].buttonNum
                  p == Sends[k].pkt
              IN  /\ p.byte1 % 16 = 1
                  /\ p.byte2 = notePitches[n]
                  /\ IF lastRead[n] = 0
                     THEN p.byte1 \div 16 = 9 /\ p.byte3 = 64
                     ELSE p.byte1 \div 16 = 8 /\ p.byte3 = 0

\* A MIDI-mode cycle that sent a note-on and a note-off of different pitches.
C3_Witness ==
    /\ currentMode = MIDI_MODE
    /\ pc = "delay"
    /\ \E j, k \in 1 .. Len(Sends) :
          /\ Sends[j].pkt.byte1 \div 16 = 9
          /\ Sends[k].pkt.byte1 \div 16 = 8
          /\ Sends[j].pkt.byte2 # Sends[k].pkt.byte2

(***************************************************************************)
(* C4: once setup() has finished, the selector has been read exactly once, *)
(* the mode is the one that read selects, and the two slots hold either    *)
(* both Keyboard handlers (KEYB_MODE) or both MIDI handlers (MIDI_MODE):   *)
(* never a mixed pair, never NULL.                                         *)
(***************************************************************************)
C4_OnePairBound ==
    pc # "boot" =>
        /\ selectReads = 1
        /\ currentMode = SelectMode(selectValue)
        /\ \/ /\ currentMode = KEYB_MODE
              /\ buttonDownHandler = "handleKeyboardDown"
              /\ buttonUpHandler = "handleKeyboardUp"
           \/ /\ currentMode = MIDI_MODE
              /\ buttonDownHandler = "handleMidiDown"
              /\ buttonUpHandler = "handleMidiUp"

\* Keyboard handlers bound, and in use, with the selector no longer at the
\* level it had at boot.
C4_Witness ==
    /\ pc = "store"
    /\ buttonDownHandler = "handleKeyboardDown"
    /\ selectLevel # selectValue
    /\ Len(events) > 0

(***************************************************************************)
(* C5: after setup() no step changes currentMode, buttonDownHandler or     *)
(* buttonUpHandler, and the selector is not read again, whatever the       *)
(* pedals and the selector pin do.                                         *)
(***************************************************************************)
C5_ModeFrozen ==
    [][pc # "boot" =>
          UNCHANGED <<currentMode, buttonDownHandler, buttonUpHandler,
                      selectValue, selectReads>>]_vars

\* Several cycles into MIDI mode (a pedal is already cached as down) with
\* the selector at the level that would have selected Keyboard mode.
C5_Witness ==
    /\ pc = "loop"
    /\ currentMode = MIDI_MODE
    /\ SelectMode(selectLevel) = KEYB_MODE
    /\ \E n \in Pedals : prevValues[n] = 0 /\ pedalValues[n] = 1

(***************************************************************************)
(* C6: Keyboard mode is the default: with the select button not held at    *)
(* reset (the selector reads HIGH) setup() selects Keyboard mode, and MIDI *)
(* mode is selected only when the selector reads LOW.                      *)
(***************************************************************************)
C6_KeyboardIsDefault ==
    pc # "boot" =>
        /\ selectValue = HIGH => currentMode = KEYB_MODE
        /\ currentMode = MIDI_MODE => selectValue = LOW

(***************************************************************************)
(* C7: a read of pedal i that returns the value the previous read of       *)
(* pedal i returned invokes no handler and makes no backend call.          *)
(***************************************************************************)
C7_SteadyInputSilent ==
    [][(pc = "read" /\ pc' # "read" /\ pedalValue' = lastRead[i]) =>
          (events' = events /\ calls' = calls /\ pc' = "store")]_vars

\* A pedal read as down while cached as down: held, and no event for it.
C7_Witness ==
    /\ pc = "store"
    /\ i \in Active
    /\ pedalValue = 0
    /\ pedalValues[i] = 0
    /\ EventsFor(i) = << >>
    /\ Len(events) > 0

(***************************************************************************)
(* C8: within one poll cycle the handler calls are made in strictly        *)
(* increasing pedal index order, and a finished cycle has made one call    *)
(* per pedal whose value changed.                                          *)
(***************************************************************************)
C8_IndexOrder ==
    /\ \A j, k \in 1 .. Len(events) :
          j < k => events[j].buttonNum < events[k].buttonNum
    /\ pc = "delay" =>
          Len(events) = Cardinality({n \in Pedals : prevValues[n] # pedalValues[n]})

\* Every active pedal changed in the same cycle.
C8_Witness ==
    /\ pc = "delay"
    /\ Len(events) = Cardinality(Active)
    /\ currentMode = MIDI_MODE

(***************************************************************************)
(* C9 as stated: every level change of a pedal results in exactly one      *)
(* handler call for it: a read of pedal i makes as many handler calls as   *)
(* the pin changed level since the previous read.                          *)
(***************************************************************************)
C9_OncePerEdge ==
    (pc # "boot" /\ AfterRead) => Len(EventsFor(i)) = readEdges

(***************************************************************************)
(* C9 amended: a read of pedal i makes one handler call if the pin changed *)
(* level an odd number of times since the previous read (the sampled level *)
(* differs) and none otherwise; never more calls than level changes.       *)
(***************************************************************************)
C9_OncePerSampledChange ==
    (pc # "boot" /\ AfterRead) =>
        /\ Len(EventsFor(i)) = readEdges % 2
        /\ Len(EventsFor(i)) <= readEdges

\* A pedal pressed and released between two reads: two edges, no call.
C9_Witness ==
    /\ pc = "store"
    /\ i \in Active
    /\ readEdges = 2
    /\ EventsFor(i) = << >>

(***************************************************************************)
(* C10: after setup(), in Keyboard mode green is LOW, red is HIGH and no   *)
(* LED is written again; in MIDI mode green is HIGH, red is LOW outside    *)
(* startNote()/endNote() (so at every cycle boundary) and HIGH only from   *)
(* the LED write before sendMIDI to the LED write after flush.             *)
(***************************************************************************)
C10_IndicatorLEDs ==
    pc # "boot" =>
        /\ currentMode = KEYB_MODE =>
              /\ greenLED = LOW
              /\ redLED = HIGH
              /\ \A k \in 1 .. Len(calls) : calls[k].op # "digitalWrite(redLED)"
        /\ currentMode = MIDI_MODE =>
              /\ greenLED = HIGH
              /\ redLED = (IF InNote THEN HIGH ELSE LOW)

\* MIDI mode, a second message of the cycle is being sent.
C10_Witness ==
    /\ currentMode = MIDI_MODE
    /\ pc = "flush"
    /\ redLED = HIGH
    /\ Len(events) = 2

(***************************************************************************)
(* C11: Keyboard.begin() is called exactly once in a run whose mode is     *)
(* Keyboard, before any Keyboard.press or Keyboard.release, and never in a *)
(* run whose mode is MIDI.                                                 *)
(***************************************************************************)
C11_KeyboardBeginOnce ==
    /\ pc = "boot" => keyboardBegun = 0
    /\ pc # "boot" =>
          keyboardBegun = (IF currentMode = KEYB_MODE THEN 1 ELSE 0)
    /\ (\/ keysHeld # {}
        \/ \E n \in Pedals : keyBalance[n] # 0
        \/ \E k \in 1 .. Len(calls) :
              calls[k].op \in {"Keyboard.press", "Keyboard.release"})
          => keyboardBegun = 1

\* Keyboard mode, a key pressed in an earlier cycle is released in this one.
C11_Witness ==
    /\ currentMode = KEYB_MODE
    /\ keyboardBegun = 1
    /\ pc = "delay"
    /\ \E k \in 1 .. Len(calls) : calls[k].op = "Keyboard.release"

\* Both handler slots are still as initialised.
Unbound == buttonDownHandler = "NULL" /\ buttonUpHandler = "NULL"

(***************************************************************************)
(* C12: at the end of every poll cycle pedalValues[n] is the value read    *)
(* for pedal n in that cycle, for every pedal, whether the value changed   *)
(* or not and whether a handler was invoked or not (also with the slots    *)
(* NULL); during the scan this already holds of the pedals scanned.        *)
(***************************************************************************)
C12_CacheIsLastRead ==
    /\ \A n \in Pedals : n < i => pedalValues[n] = lastRead[n]
    /\ pc = "delay" =>
          /\ i = NUM_PEDALS
          /\ \A n \in Pedals : pedalValues[n] = lastRead[n]

\* A finished cycle in which one pedal changed and a handler ran for it
\* while another pedal stayed down and no handler ran for it.
C12_Witness ==
    /\ pc = "delay"
    /\ ~Unbound
    /\ \E n \in Active : Len(EventsFor(n)) = 1 /\ pedalValues[n] # prevValues[n]
    /\ \E m \in Active :
          EventsFor(m) = << >> /\ pedalValues[m] = 0 /\ prevValues[m] = 0

(***************************************************************************)
(* C13: with the slots unbound a poll cycle that sees an edge calls no     *)
(* handler and no backend, scans all 13 pedals and records every read;     *)
(* once the slots are bound, a pedal whose read equals the recorded value  *)
(* gets no handler call, so the dropped edge is not reported later.        *)
(***************************************************************************)
C13_UnboundSlotsTolerated ==
    /\ Unbound =>
          /\ events = << >>
          /\ calls = << >>
          /\ keysHeld = {}
          /\ sounding = {}
          /\ ~InNote
          /\ pc = "delay" =>
                /\ i = NUM_PEDALS
                /\ \A n \in Pedals : pedalValues[n] = lastRead[n]
    /\ ~Unbound =>
          \A n \in Pedals :
              (ReadDone(n) /\ lastRead[n] = prevValues[n]) => EventsFor(n) = << >>

\* Keyboard handlers bound, a cycle finished without any handler call, and
\* a pedal is cached as down whose key was never pressed: its down edge was
\* dropped while the slots were unbound.
C13_Witness ==
    /\ buttonDownHandler = "handleKeyboardDown"
    /\ pc = "delay"
    /\ events = << >>
    /\ \E n \in Active :
          /\ pedalValues[n] = 0
          /\ prevValues[n] = 0
          /\ keyBalance[n] = 0
          /\ pedalKeys[n] \notin keysHeld

(***************************************************************************)
(* C14: the 13 pedals carry the 13 chromatic pitches of one octave plus    *)
(* the next C: notePitches[n] = notePitches[0] + n for every pedal n, so   *)
(* the pitches are pairwise distinct and pedal 12 is an octave above       *)
(* pedal 0; the message built for pedal i carries notePitches[0] + i.      *)
(***************************************************************************)
C14_ChromaticOctave ==
    pc # "boot" =>
        /\ \A n \in Pedals : notePitches[n] = notePitches[0] + n
        /\ \A m, n \in Pedals : m # n => notePitches[m] # notePitches[n]
        /\ notePitches[NUM_PEDALS - 1] = notePitches[0] + 12
        /\ InNote => packet.byte2 = notePitches[0] + i

(***************************************************************************)
(* C15: in MIDI mode the backend calls of a cycle are groups of four, in   *)
(* this order and with nothing between: red LED HIGH, sendMIDI, flush, red *)
(* LED LOW; a pedal is read only between groups, and the packet sent is    *)
(* the packet built before the LED was written.                            *)
(***************************************************************************)
C15_SendBracket ==
    (pc # "boot" /\ currentMode = MIDI_MODE) =>
        /\ \A k \in 1 .. Len(calls) :
              CASE k % 4 = 1 -> calls[k] = WriteRedLED(HIGH)
                [] k % 4 = 2 -> calls[k].op = "MidiUSB.sendMIDI"
                [] k % 4 = 3 -> calls[k] = MidiFlushCall
                [] k % 4 = 0 -> calls[k] = WriteRedLED(LOW)
        /\ Len(calls) % 4 =
              (CASE pc = "send" -> 1
                 [] pc = "flush" -> 2
                 [] pc = "ledOff" -> 3
                 [] OTHER -> 0)
        /\ pc = "flush" =>
              /\ calls[Len(calls)].pkt = packet
              /\ packet = (IF lastRead[i] = 0
                           THEN NoteOnPacket(notePitches[i])
                           ELSE NoteOffPacket(notePitches[i]))

\* A MIDI-mode cycle that sent two messages.
C15_Witness ==
    /\ currentMode = MIDI_MODE
    /\ pc = "delay"
    /\ Len(calls) = 8

(***************************************************************************)
(* C16: the interleaved scan of loop() gives what the snapshot cycle       *)
(* gives on the same reads: the handler calls are those of one pass over   *)
(* (previous cache, reads) in index order, and at the cycle boundary the   *)
(* cache is the reads.                                                     *)
(***************************************************************************)
\* The snapshot cycle's events for pedals 0 .. k-1: one per pedal whose read
\* differs from the previous cache, dropped when the slot is NULL.
RECURSIVE SnapshotEvents(_, _, _)
SnapshotEvents(prev, reads, k) ==
    IF k = 0 THEN << >>
    ELSE LET n == k - 1
             rest == SnapshotEvents(prev, reads, n)
             h == IF reads[n] = 0 THEN buttonDownHandler ELSE buttonUpHandler
         IN  IF reads[n] # prev[n] /\ h # "NULL"
             THEN Append(rest, [handler |-> h, buttonNum |-> n])
             ELSE rest

C16_SnapshotEquivalence ==
    pc # "boot" =>
        /\ events = SnapshotEvents(prevValues, lastRead,
                                   IF AfterRead THEN i + 1 ELSE i)
        /\ pc = "delay" => pedalValues = lastRead

\* A finished cycle with two handler calls, during which a pedal changed
\* level after it had been read: no single instant shows the cycle's reads.
C16_Witness ==
    /\ pc = "delay"
    /\ Len(events) = 2
    /\ \E n \in Active :
          pins[n] # lastRead[n] /\ n < events[2].buttonNum

(***************************************************************************)
(* C17: the polling loop never stops and every cycle completes; under fair *)
(* scheduling of the sketch, when a pedal's input is at a level other than *)
(* the one last read and stays there, the handler for that direction is    *)
(* eventually invoked for that pedal, by the read that samples the level.  *)
(***************************************************************************)
\* The current cycle called the down / up handler for pedal n.
DownReported(n) ==
    /\ lastRead[n] = 0
    /\ \E k \in 1 .. Len(events) :
          events[k] = [handler |-> BindDown(currentMode), buttonNum |-> n]

UpReported(n) ==
    /\ lastRead[n] = 1
    /\ \E k \in 1 .. Len(events) :
          events[k] = [handler |-> BindUp(currentMode), buttonNum |-> n]

C17_EventuallyReported ==
    /\ []<>(pc = "delay")
    /\ \A n \in 0 .. (NumLowActive - 1) :
          (pins[n] = 0 /\ lastRead[n] = 1) ~> (pins[n] = 1 \/ DownReported(n))
    /\ \A n \in 0 .. (NumLowActive - 1) :
          (pins[n] = 1 /\ lastRead[n] = 0) ~> (pins[n] = 0 \/ UpReported(n))

\* Pedal 1 is still held down and its down handler has been called, in a
\* cycle that also called the up handler for pedal 0.
C17_Witness ==
    /\ pins[1] = 0
    /\ DownReported(1)
    /\ UpReported(0)
    /\ pc = "delay"

\* Between two poll cycles: loop() is about to return or to be entered.
CycleBoundary == pc \in {"loop", "delay"}

(***************************************************************************)
(* C18: the two output protocols exclude each other for a whole run: in    *)
(* Keyboard mode there is no MidiUSB.sendMIDI and no MidiUSB.flush, in     *)
(* MIDI mode no Keyboard.begin, Keyboard.press or Keyboard.release.        *)
(***************************************************************************)
C18_ProtocolsExclusive ==
    pc # "boot" =>
        /\ currentMode = KEYB_MODE =>
              /\ sounding = {}
              /\ ~InNote
              /\ \A k \in 1 .. Len(calls) :
                    calls[k].op \notin {"MidiUSB.sendMIDI", "MidiUSB.flush"}
        /\ currentMode = MIDI_MODE =>
              /\ keyboardBegun = 0
              /\ keysHeld = {}
              /\ \A n \in Pedals : keyBalance[n] = 0
              /\ \A k \in 1 .. Len(calls) :
                    calls[k].op \notin {"Keyboard.press", "Keyboard.release"}

\* A MIDI-mode cycle that sent a note-off while another note stays on.
C18_Witness ==
    /\ currentMode = MIDI_MODE
    /\ pc = "delay"
    /\ sounding # {}
    /\ \E k \in 1 .. Len(Sends) : Sends[k].pkt.byte1 \div 16 = 8

(***************************************************************************)
(* C19: in Keyboard mode, at every poll-cycle boundary the key codes held  *)
(* on the backend are exactly the keys of the pedals cached as down.       *)
(***************************************************************************)
C19_HeldKeysMatchCache ==
    (pc # "boot" /\ currentMode = KEYB_MODE /\ (CycleBoundary \/ pc = "read")) =>
        keysHeld = {pedalKeys[n] : n \in {m \in Pedals : pedalValues[m] = 0}}

\* A keyboard-mode cycle that released one key while two others are held.
C19_Witness ==
    /\ currentMode = KEYB_MODE
    /\ pc = "delay"
    /\ Cardinality(keysHeld) = 2
    /\ \E k \in 1 .. Len(calls) : calls[k].op = "Keyboard.release"

(***************************************************************************)
(* C20: in MIDI mode, at every poll-cycle boundary a pitch is sounding     *)
(* (its latest message is a note-on) if and only if some pedal with that   *)
(* pitch is cached as down.                                                *)
(***************************************************************************)
C20_SoundingMatchesCache ==
    (pc # "boot" /\ currentMode = MIDI_MODE /\ CycleBoundary) =>
        sounding = {notePitches[n] : n \in {m \in Pedals : pedalValues[m] = 0}}

====
